---- MODULE Spec2Model ----
(***************************************************************************)
(* Pipe cutting optimizer (1D cutting stock): the optimize() packing run,   *)
(* the statistics and tables the views compute over its plan, and the      *)
(* handlers of the App's material and demand forms.                        *)
(*                                                                         *)
(* A length is a JavaScript number.  It is modelled as a fixed-point        *)
(* number of UnitsPerMm units to the millimetre, so that lengths between   *)
(* two whole millimetres exist (parseFloat accepts them, and len * 1000 in *)
(* metre mode produces them).  Ids are the numeric strings minted by       *)
(* nextId (String(++idCounter)); an id is modelled by the number it spells *)
(* so that the key order of a JavaScript object can be computed.           *)
(* A Material's display name is never read by the modelled code and is     *)
(* left out of the record.                                                 *)
(***************************************************************************)
EXTENDS Integers, Sequences, FiniteSets

\* ── Program constants ──────────────────────────────────────────────
FIXED_WASTE == 110
KERF == 2

\* ── Bounds and input domains ───────────────────────────────────────
MaxDemands == 3

\* resolution of a length: units to the millimetre
UnitsPerMm == 10

Mm(n) == n * UnitsPerMm

MatIds == {1, 2}
\* usable lengths 11 mm and 13 mm
StockLengths == {Mm(121), Mm(123)}
\* 1, 3 and 7 mm fit both stocks, though not all together; 13 is exactly the
\* usable length of the longer stock and too long for the shorter one; 12
\* fits the longer stock, but not together with a kerf
Lengths == {Mm(1), Mm(3), Mm(7), Mm(12), Mm(13)}
Projects == {"P"}

FirstDemandId == Cardinality(MatIds) + 1

MaterialRecs == [id : MatIds, stockLengthMm : StockLengths]

\* materials state: materials are appended with freshly minted ids, so the
\* ids of the list are strictly increasing
MaterialSeqs ==
  { s \in UNION { [1..n -> MaterialRecs] : n \in 0..Cardinality(MatIds) } :
      \A i, j \in 1..Len(s) : i < j => s[i].id < s[j].id }

\* demands state of n demands: ids in minting order; any material id, known
\* or not
DemandSeqs(n) ==
  { [i \in 1..n |->
       [id |-> FirstDemandId + i - 1, project |-> f[i][1],
        materialId |-> f[i][2], lengthMm |-> f[i][3]]] :
     f \in [1..n -> Projects \X MatIds \X Lengths] }

\* A second input domain, for the tables of the views: stock of 2 m (1890 mm
\* usable); lengths shown in mm and in m, two of them less than a
\* millimetre apart (1.001 m entered in metre mode is stored as
\* 1000.9999999999999, 1001 entered in mm as 1001), one too long; two
\* projects
ViewStockLengths == {Mm(2000)}
ViewLengths == {Mm(400), Mm(1001) - 1, Mm(1001), Mm(2000)}
ViewProjects == {"X", "Y"}

ViewMaterialSeqs ==
  { s \in UNION { [1..n -> [id : MatIds, stockLengthMm : ViewStockLengths]] :
                    n \in 1..Cardinality(MatIds) } :
      \A i \in 1..Len(s) : s[i].id = i }

ViewDemandSeqs(n) ==
  { [i \in 1..n |->
       [id |-> FirstDemandId + i - 1, project |-> f[i][1],
        materialId |-> f[i][2], lengthMm |-> f[i][3]]] :
     f \in [1..n -> ViewProjects \X MatIds \X ViewLengths] }

\* A third input domain, for the choice among several open pipes: one
\* material, one demand more than MaxDemands (7, 3, 3 and 1 mm at 13 mm
\* usable leave two pipes with different room for the last piece)
PackMaterialSeqs ==
  { <<[id |-> 1, stockLengthMm |-> l]>> : l \in StockLengths }

PackDemandSeqs ==
  { [i \in 1..(MaxDemands + 1) |->
       [id |-> FirstDemandId + i - 1, project |-> f[i][1],
        materialId |-> f[i][2], lengthMm |-> f[i][3]]] :
     f \in [1..(MaxDemands + 1) -> Projects \X MatIds \X Lengths] }

VARIABLES
  materials,  \* optimize argument: Material[]
  demands,    \* optimize argument: Demand[]
  pc,         \* position in optimize: "start", "groups", "pieces", "done";
              \* "aggregated" once the demand table is built
  grouped,    \* Map<string, Demand[]> as its entries in insertion order
  gi,         \* position of the for-of loop over grouped
  mat,        \* <<material>> of the current group, <<>> outside the loop body
  sorted,     \* the current group's pieces, sorted
  si,         \* position of the for-of loop over sorted
  pipes,      \* Pipe[] of the current material
  plan,       \* CutPlan object as its properties in creation order
  aggregated, \* AggregatedDemand[] of the demand table, <<>> before it is built
  step,       \* App state: the step shown, 1 (materials), 2 (demands) or,
              \* in the three-step App, 3 (result)
  formMaterialId, \* DemandStep state materialId; 0 is '' or not mounted
  idCounter,  \* the module's id counter
  results     \* state of the three-step App: <<>> is null, <<plan>> a plan

vars ==
  <<materials, demands, pc, grouped, gi, mat, sorted, si, pipes, plan,
    aggregated, step, formMaterialId, idCounter, results>>

\* the state of the forms, which optimize and aggregateDemands do not touch
appVars == <<step, formMaterialId, idCounter, results>>

\* the state of a run of optimize, which the forms do not touch
runVars == <<pc, grouped, gi, mat, sorted, si, pipes, plan, aggregated>>

\* ── Sequence helpers ───────────────────────────────────────────────
RECURSIVE SumSeq(_)
SumSeq(s) == IF s = <<>> THEN 0 ELSE s[1] + SumSeq(Tail(s))

RECURSIVE Concat(_)
Concat(ss) == IF ss = <<>> THEN <<>> ELSE ss[1] \o Concat(Tail(ss))

Range(s) == { s[i] : i \in 1..Len(s) }

\* ── optimize: the material map ─────────────────────────────────────
\* new Map(materials.map(m => [m.id, m])): a later entry replaces an earlier
\* one with the same id
MaterialMapHas(ms, id) == \E i \in 1..Len(ms) : ms[i].id = id

MaterialMapGet(ms, id) ==
  LET last == CHOOSE i \in 1..Len(ms) :
                /\ ms[i].id = id
                /\ \A j \in 1..Len(ms) : ms[j].id = id => j <= i
  IN ms[last]

\* ── optimize: grouping by material ─────────────────────────────────
\* a bug that takes the demands off the input array while grouping them
DemandsDrained(ds) == <<>>

\* for (const d of demands): the loop reads the array and writes the lists
\* of grouped, which are new arrays; demands is as it was
DemandsAfterGrouping(ds) == ds

GroupIndex(g, key) ==
  IF \E i \in 1..Len(g) : g[i].materialId = key
  THEN CHOOSE i \in 1..Len(g) : g[i].materialId = key
  ELSE 0

\* a bug that files every demand under the first key seen
GroupInsertFirstKey(g, d) ==
  IF g = <<>>
  THEN <<[materialId |-> d.materialId, pieces |-> <<d>>]>>
  ELSE [g EXCEPT ![1].pieces = Append(@, d)]

\* one iteration of the loop over demands
GroupInsert(g, d) ==
  LET i == GroupIndex(g, d.materialId)
  IN IF i > 0
     THEN [g EXCEPT ![i].pieces = Append(@, d)]
     ELSE Append(g, [materialId |-> d.materialId, pieces |-> <<d>>])

RECURSIVE GroupUpTo(_, _)
GroupUpTo(ds, n) ==
  IF n = 0 THEN <<>> ELSE GroupInsert(GroupUpTo(ds, n - 1), ds[n])

GroupDemands(ds) == GroupUpTo(ds, Len(ds))

\* ── optimize: sorting ──────────────────────────────────────────────
\* a bug that sorts unstably: a piece goes before the pieces of its length
InsertDescBeforeEqual(s, d) ==
  LET Longer(x) == x.lengthMm > d.lengthMm
      NotLonger(x) == x.lengthMm <= d.lengthMm
  IN SelectSeq(s, Longer) \o <<d>> \o SelectSeq(s, NotLonger)

\* [...pieces].sort((a, b) => b.lengthMm - a.lengthMm): Array.prototype.sort
\* is stable, so a piece goes behind every piece at least as long
InsertDesc(s, d) ==
  LET NotShorter(x) == x.lengthMm >= d.lengthMm
      Shorter(x) == x.lengthMm < d.lengthMm
  IN SelectSeq(s, NotShorter) \o <<d>> \o SelectSeq(s, Shorter)

RECURSIVE SortUpTo(_, _)
SortUpTo(ps, n) ==
  IF n = 0 THEN <<>> ELSE InsertDesc(SortUpTo(ps, n - 1), ps[n])

SortDesc(ps) == SortUpTo(ps, Len(ps))

\* ── optimize: placing one piece ────────────────────────────────────
Usable(m) == m.stockLengthMm - Mm(FIXED_WASTE)

\* a bug that charges the kerf before comparing
ExceedsUsableWithKerf(lengthMm, usable) == lengthMm + Mm(KERF) > usable

\* a bug that allows the kerf on top of the usable length
ExceedsUsableLessKerf(lengthMm, usable) == lengthMm > usable + Mm(KERF)

\* if (piece.lengthMm > usable) continue
ExceedsUsable(lengthMm, usable) == lengthMm > usable

Needed(piece) == piece.lengthMm + Mm(KERF)

\* the scan over pipes; bestIdx = 0 stands for -1, and bestRemaining is
\* Infinity exactly while bestIdx = 0
RECURSIVE BestScan(_, _, _, _, _)
BestScan(ps, needed, i, bestIdx, bestRemaining) ==
  IF i > Len(ps) THEN bestIdx
  ELSE IF /\ ps[i].remainingMm >= needed
          /\ (bestIdx = 0 \/ ps[i].remainingMm < bestRemaining)
       THEN BestScan(ps, needed, i + 1, i, ps[i].remainingMm)
       ELSE BestScan(ps, needed, i + 1, bestIdx, bestRemaining)

\* a bug that drops the capacity test from the scan
RECURSIVE SmallestScan(_, _, _, _)
SmallestScan(ps, i, bestIdx, bestRemaining) ==
  IF i > Len(ps) THEN bestIdx
  ELSE IF bestIdx = 0 \/ ps[i].remainingMm < bestRemaining
       THEN SmallestScan(ps, i + 1, i, ps[i].remainingMm)
       ELSE SmallestScan(ps, i + 1, bestIdx, bestRemaining)

\* a bug that takes the first pipe with room (first fit)
RECURSIVE FirstFitScan(_, _, _)
FirstFitScan(ps, needed, i) ==
  IF i > Len(ps) THEN 0
  ELSE IF ps[i].remainingMm >= needed THEN i
       ELSE FirstFitScan(ps, needed, i + 1)

BestIdxFirstFit(ps, needed) == FirstFitScan(ps, needed, 1)

\* a bug that asks for more room than needed (> for >=)
BestIdxStrictRoom(ps, needed) == BestScan(ps, needed + 1, 1, 0, 0)

BestIdxNoCapacityTest(ps, needed) == SmallestScan(ps, 1, 0, 0)

BestIdx(ps, needed) == BestScan(ps, needed, 1, 0, 0)

\* pipes[bestIdx].cuts.push(piece); pipes[bestIdx].remainingMm -= needed
AppendToPipe(ps, idx, piece) ==
  [ps EXCEPT ![idx].cuts = Append(@, piece),
             ![idx].remainingMm = @ - Needed(piece)]

\* a bug that opens a pipe without charging the kerf of its first cut
NewPipeNoKerf(m, piece) ==
  [cuts |-> <<piece>>,
   remainingMm |-> Usable(m) - piece.lengthMm,
   stockLengthMm |-> m.stockLengthMm,
   usableMm |-> Usable(m)]

\* pipes.push({cuts: [piece], remainingMm: usable - needed, ...})
NewPipe(m, piece) ==
  [cuts |-> <<piece>>,
   remainingMm |-> Usable(m) - Needed(piece),
   stockLengthMm |-> m.stockLengthMm,
   usableMm |-> Usable(m)]

\* the body of the loop over sorted
PlacePiece(ps, m, piece) ==
  IF ExceedsUsable(piece.lengthMm, Usable(m)) THEN ps
  ELSE IF BestIdx(ps, Needed(piece)) > 0
       THEN AppendToPipe(ps, BestIdx(ps, Needed(piece)), piece)
       ELSE Append(ps, NewPipe(m, piece))

\* a bug that leaves the trailing kerf charged
KeepTrailingKerf(pipe) == pipe

\* if (pipe.cuts.length > 0) pipe.remainingMm += KERF
RemoveTrailingKerf(pipe) ==
  IF Len(pipe.cuts) > 0
  THEN [pipe EXCEPT !.remainingMm = @ + Mm(KERF)]
  ELSE pipe

RemoveTrailingKerfs(ps) == [i \in 1..Len(ps) |-> RemoveTrailingKerf(ps[i])]

\* ── optimize: the plan object ──────────────────────────────────────
PlanIndex(p, key) ==
  IF \E i \in 1..Len(p) : p[i].materialId = key
  THEN CHOOSE i \in 1..Len(p) : p[i].materialId = key
  ELSE 0

\* plan[materialId] = pipes: a new property is created last, an existing
\* one keeps its place
PlanSet(p, key, ps) ==
  IF PlanIndex(p, key) > 0
  THEN [p EXCEPT ![PlanIndex(p, key)].pipes = ps]
  ELSE Append(p, [materialId |-> key, pipes |-> ps])

\* a bug that records an empty pipe list for a material that is not known
PlanWithEmptyEntry(p, key) == PlanSet(p, key, <<>>)

\* if (!mat) continue: the plan is left as it is
PlanAfterUnknown(p, key) == p

\* Object.entries(plan): the keys that are array indices come first, in
\* ascending numeric order, then the other string keys in creation order.
\* Every id is a numeric string minted by nextId, hence an array index.
RECURSIVE SortEntriesUpTo(_, _)
SortEntriesUpTo(p, n) ==
  IF n = 0 THEN <<>>
  ELSE LET rest == SortEntriesUpTo(p, n - 1)
           Before(e) == e.materialId < p[n].materialId
           After(e) == e.materialId > p[n].materialId
       IN SelectSeq(rest, Before) \o <<p[n]>> \o SelectSeq(rest, After)

ObjectEntries(p) == SortEntriesUpTo(p, Len(p))

\* ── aggregateDemands ───────────────────────────────────────────────
\* `${d.materialId}|${d.project}|${d.lengthMm}`: the first and the last
\* field hold no '|', so the string determines the three fields
\* a bug that leaves the project out of the key
AggKeyNoProject(d) == <<d.materialId, d.lengthMm>>

AggKey(d) == <<d.materialId, d.project, d.lengthMm>>

AggIndex(a, key) ==
  IF \E i \in 1..Len(a) : a[i].key = key
  THEN CHOOSE i \in 1..Len(a) : a[i].key = key
  ELSE 0

AggInsert(a, d) ==
  LET i == AggIndex(a, AggKey(d))
  IN IF i > 0
     THEN [a EXCEPT ![i].count = @ + 1, ![i].ids = Append(@, d.id)]
     ELSE Append(a, [key |-> AggKey(d), project |-> d.project,
                     materialId |-> d.materialId, lengthMm |-> d.lengthMm,
                     count |-> 1, ids |-> <<d.id>>])

RECURSIVE AggUpTo(_, _)
AggUpTo(ds, n) ==
  IF n = 0 THEN <<>> ELSE AggInsert(AggUpTo(ds, n - 1), ds[n])

aggregateDemands(ds) == AggUpTo(ds, Len(ds))

\* for (const d of demands): the loop reads the array; demands is as it was
DemandsAfterAggregating(ds) == ds

\* ── optimize as a function of its arguments ────────────────────────
RECURSIVE PackUpTo(_, _, _)
PackUpTo(m, srt, n) ==
  IF n = 0 THEN <<>> ELSE PlacePiece(PackUpTo(m, srt, n - 1), m, srt[n])

\* the body of the loop over grouped, for a material that is known
PackMaterial(m, pieces) ==
  RemoveTrailingKerfs(PackUpTo(m, SortDesc(pieces), Len(pieces)))

RECURSIVE PlanUpTo(_, _, _)
PlanUpTo(ms, g, n) ==
  IF n = 0 THEN <<>>
  ELSE LET p == PlanUpTo(ms, g, n - 1)
           key == g[n].materialId
       IN IF ~MaterialMapHas(ms, key)
          THEN PlanAfterUnknown(p, key)
          ELSE PlanSet(p, key, PackMaterial(MaterialMapGet(ms, key), g[n].pieces))

optimize(ms, ds) == PlanUpTo(ms, GroupDemands(ds), Len(GroupDemands(ds)))

\* ── optimize, step by step ─────────────────────────────────────────
\* the forms while optimize runs: the demand step is shown, its material
\* select stands at the first material, the ids of the arguments are minted
FormsAtCall ==
  /\ step = 2
  /\ formMaterialId = IF materials = <<>> THEN 0 ELSE materials[1].id
  /\ idCounter = FirstDemandId + Len(demands) - 1
  /\ results = <<>>

Init ==
  /\ materials \in MaterialSeqs
  /\ \E n \in 0..MaxDemands : demands \in DemandSeqs(n)
  /\ pc = "start"
  /\ grouped = <<>>
  /\ gi = 1
  /\ mat = <<>>
  /\ sorted = <<>>
  /\ si = 1
  /\ pipes = <<>>
  /\ plan = <<>>
  /\ aggregated = <<>>
  /\ FormsAtCall

\* materialMap, grouped and the empty plan are built
Group ==
  /\ pc = "start"
  /\ grouped' = GroupDemands(demands)
  /\ gi' = 1
  /\ plan' = <<>>
  /\ pc' = "groups"
  /\ demands' = DemandsAfterGrouping(demands)
  /\ UNCHANGED <<materials, mat, sorted, si, pipes, aggregated>>
  /\ UNCHANGED appVars

\* const mat = materialMap.get(materialId); if (!mat) continue
SkipMaterial ==
  /\ pc = "groups"
  /\ gi <= Len(grouped)
  /\ ~MaterialMapHas(materials, grouped[gi].materialId)
  /\ plan' = PlanAfterUnknown(plan, grouped[gi].materialId)
  /\ gi' = gi + 1
  /\ UNCHANGED
       <<materials, demands, pc, grouped, mat, sorted, si, pipes, aggregated>>
  /\ UNCHANGED appVars

\* usable, sorted and the empty pipes of a known material
BeginMaterial ==
  /\ pc = "groups"
  /\ gi <= Len(grouped)
  /\ MaterialMapHas(materials, grouped[gi].materialId)
  /\ mat' = <<MaterialMapGet(materials, grouped[gi].materialId)>>
  /\ sorted' = SortDesc(grouped[gi].pieces)
  /\ si' = 1
  /\ pipes' = <<>>
  /\ pc' = "pieces"
  /\ UNCHANGED <<materials, demands, grouped, gi, plan, aggregated>>
  /\ UNCHANGED appVars

AtPiece == pc = "pieces" /\ si <= Len(sorted)

\* if (piece.lengthMm > usable) continue
SkipPiece ==
  /\ AtPiece
  /\ ExceedsUsable(sorted[si].lengthMm, Usable(mat[1]))
  /\ pipes' = PlacePiece(pipes, mat[1], sorted[si])
  /\ si' = si + 1
  /\ UNCHANGED
       <<materials, demands, pc, grouped, gi, mat, sorted, plan, aggregated>>
  /\ UNCHANGED appVars

\* bestIdx >= 0: the piece joins the pipe the scan chose
AppendPiece ==
  /\ AtPiece
  /\ ~ExceedsUsable(sorted[si].lengthMm, Usable(mat[1]))
  /\ BestIdx(pipes, Needed(sorted[si])) > 0
  /\ pipes' = PlacePiece(pipes, mat[1], sorted[si])
  /\ si' = si + 1
  /\ UNCHANGED
       <<materials, demands, pc, grouped, gi, mat, sorted, plan, aggregated>>
  /\ UNCHANGED appVars

\* bestIdx = -1: the piece opens a pipe
OpenPipe ==
  /\ AtPiece
  /\ ~ExceedsUsable(sorted[si].lengthMm, Usable(mat[1]))
  /\ BestIdx(pipes, Needed(sorted[si])) = 0
  /\ pipes' = PlacePiece(pipes, mat[1], sorted[si])
  /\ si' = si + 1
  /\ UNCHANGED
       <<materials, demands, pc, grouped, gi, mat, sorted, plan, aggregated>>
  /\ UNCHANGED appVars

\* the trailing kerfs are removed and plan[materialId] = pipes
FinishMaterial ==
  /\ pc = "pieces"
  /\ si > Len(sorted)
  /\ plan' = PlanSet(plan, grouped[gi].materialId, RemoveTrailingKerfs(pipes))
  /\ gi' = gi + 1
  /\ mat' = <<>>
  /\ sorted' = <<>>
  /\ si' = 1
  /\ pipes' = <<>>
  /\ pc' = "groups"
  /\ UNCHANGED <<materials, demands, grouped, aggregated>>
  /\ UNCHANGED appVars

\* return plan
Return ==
  /\ pc = "groups"
  /\ gi > Len(grouped)
  /\ pc' = "done"
  /\ UNCHANGED
       <<materials, demands, grouped, gi, mat, sorted, si, pipes, plan,
         aggregated>>
  /\ UNCHANGED appVars

\* the demand table is rendered once the plan is there:
\* const aggregated = aggregateDemands(demands)
Aggregate ==
  /\ pc = "done"
  /\ aggregated' = aggregateDemands(demands)
  /\ demands' = DemandsAfterAggregating(demands)
  /\ pc' = "aggregated"
  /\ UNCHANGED <<materials, grouped, gi, mat, sorted, si, pipes, plan>>
  /\ UNCHANGED appVars

Next ==
  \/ Group
  \/ SkipMaterial
  \/ BeginMaterial
  \/ SkipPiece
  \/ AppendPiece
  \/ OpenPipe
  \/ FinishMaterial
  \/ Return
  \/ Aggregate

Spec == Init /\ [][Next]_vars

\* the same run over the second input domain
InitView ==
  /\ materials \in ViewMaterialSeqs
  /\ \E n \in 0..MaxDemands : demands \in ViewDemandSeqs(n)
  /\ pc = "start"
  /\ grouped = <<>>
  /\ gi = 1
  /\ mat = <<>>
  /\ sorted = <<>>
  /\ si = 1
  /\ pipes = <<>>
  /\ plan = <<>>
  /\ aggregated = <<>>
  /\ FormsAtCall

SpecView == InitView /\ [][Next]_vars

\* the same run over the third input domain
InitPack ==
  /\ materials \in PackMaterialSeqs
  /\ demands \in PackDemandSeqs
  /\ pc = "start"
  /\ grouped = <<>>
  /\ gi = 1
  /\ mat = <<>>
  /\ sorted = <<>>
  /\ si = 1
  /\ pipes = <<>>
  /\ plan = <<>>
  /\ aggregated = <<>>
  /\ FormsAtCall

SpecPack == InitPack /\ [][Next]_vars

\* ── The App: its state and the handlers of its forms ───────────────
\* ids minted in one session
MaxIdCounter == 5

\* the Anzahl field of the demand form
Counts == {1, 2}

InitApp ==
  /\ step = 1
  /\ materials = <<>>
  /\ demands = <<>>
  /\ formMaterialId = 0
  /\ idCounter = 0
  /\ results = <<>>
  /\ pc = "start"
  /\ grouped = <<>>
  /\ gi = 1
  /\ mat = <<>>
  /\ sorted = <<>>
  /\ si = 1
  /\ pipes = <<>>
  /\ plan = <<>>
  /\ aggregated = <<>>

\* useState(materials[0]?.id ?? '') when DemandStep is mounted
FirstMaterialId(ms) == IF ms = <<>> THEN 0 ELSE ms[1].id

\* a bug that returns idCounter + 1 and does not store it
CounterNotStored(c, n) == c

\* idCounter after n calls of nextId (++idCounter), which is also the id
\* the n-th call returns
CounterAfter(c, n) == c + n

\* MaterialStep.handleSubmit with a valid form, and addMaterial
MaterialSubmit ==
  /\ step = 1
  /\ idCounter < MaxIdCounter
  /\ \E l \in StockLengths :
       materials' =
         Append(materials,
                [id |-> CounterAfter(idCounter, 1), stockLengthMm |-> l])
  /\ idCounter' = CounterAfter(idCounter, 1)
  /\ UNCHANGED <<demands, step, formMaterialId, results>>
  /\ UNCHANGED runVars

\* a bug that deletes the material and keeps its demands
DemandsKeptOnDelete(ds, id) == ds

\* setDemands(prev => prev.filter(d => d.materialId !== id))
DemandsAfterDeleteMaterial(ds, id) ==
  LET Other(d) == d.materialId # id
  IN SelectSeq(ds, Other)

\* the delete button of a material row
deleteMaterial ==
  /\ step = 1
  /\ \E i \in 1..Len(materials) :
       LET id == materials[i].id
           Kept(m) == m.id # id
       IN /\ materials' = SelectSeq(materials, Kept)
          /\ demands' = DemandsAfterDeleteMaterial(demands, id)
  /\ UNCHANGED appVars
  /\ UNCHANGED runVars

\* the step buttons: step 2 needs a material; DemandStep is mounted while
\* step 2 is shown, and its state is lost when it is not
goToStep ==
  /\ \E s \in {1, 2} :
       /\ ~(s = 2 /\ materials = <<>>)
       /\ step' = s
       /\ formMaterialId' =
            IF s = 1 THEN 0
            ELSE IF step = 2 THEN formMaterialId
            ELSE FirstMaterialId(materials)
  /\ UNCHANGED <<materials, demands, idCounter, results>>
  /\ UNCHANGED runVars

\* the material select of the demand form: its options are the materials
setMaterialId ==
  /\ step = 2
  /\ \E i \in 1..Len(materials) : formMaterialId' = materials[i].id
  /\ UNCHANGED <<materials, demands, step, idCounter, results>>
  /\ UNCHANGED runVars

\* DemandStep.handleSubmit with a valid form: cnt calls of addDemand
DemandSubmit ==
  /\ step = 2
  /\ formMaterialId # 0
  /\ \E project \in Projects, lengthMm \in Lengths, cnt \in Counts :
       /\ Len(demands) + cnt <= MaxDemands
       /\ idCounter + cnt <= MaxIdCounter
       /\ demands' = demands \o
            [i \in 1..cnt |->
               [id |-> CounterAfter(idCounter, i), project |-> project,
                materialId |-> formMaterialId, lengthMm |-> lengthMm]]
       /\ idCounter' = CounterAfter(idCounter, cnt)
  /\ UNCHANGED <<materials, step, formMaterialId, results>>
  /\ UNCHANGED runVars

\* the delete button of a row of the aggregated demand table
deleteGroup ==
  /\ step = 2
  /\ \E g \in 1..Len(aggregateDemands(demands)) :
       LET ids == Range(aggregateDemands(demands)[g].ids)
           Kept(d) == d.id \notin ids
       IN demands' = SelectSeq(demands, Kept)
  /\ UNCHANGED <<materials>>
  /\ UNCHANGED appVars
  /\ UNCHANGED runVars

\* the delete button of a demand row (three-step App)
deleteDemand ==
  /\ step = 2
  /\ \E i \in 1..Len(demands) :
       LET Kept(d) == d.id # demands[i].id
       IN demands' = SelectSeq(demands, Kept)
  /\ UNCHANGED <<materials>>
  /\ UNCHANGED appVars
  /\ UNCHANGED runVars

\* the "Alle loeschen" button, shown while there are demands
clearDemands ==
  /\ step = 2
  /\ demands # <<>>
  /\ demands' = <<>>
  /\ UNCHANGED <<materials>>
  /\ UNCHANGED appVars
  /\ UNCHANGED runVars

NextApp ==
  \/ MaterialSubmit
  \/ deleteMaterial
  \/ goToStep
  \/ setMaterialId
  \/ DemandSubmit
  \/ deleteGroup
  \/ deleteDemand
  \/ clearDemands

SpecApp == InitApp /\ [][NextApp]_vars

\* ── The three-step App: results is state, set by runOptimize ───────
\* a bug that keeps the plan when the demands or materials change
ResultsKept(r) == r

\* setResults(null) of deleteMaterial, addDemand, deleteDemand, clearDemands
ResultsAfterChange(r) == <<>>

\* MaterialStep.handleSubmit with a valid form, and addMaterial, which
\* leaves results as it is
addMaterial3 ==
  /\ step = 1
  /\ idCounter < MaxIdCounter
  /\ \E l \in StockLengths :
       materials' =
         Append(materials,
                [id |-> CounterAfter(idCounter, 1), stockLengthMm |-> l])
  /\ idCounter' = CounterAfter(idCounter, 1)
  /\ UNCHANGED <<demands, step, formMaterialId, results>>
  /\ UNCHANGED runVars

deleteMaterial3 ==
  /\ step = 1
  /\ \E i \in 1..Len(materials) :
       LET id == materials[i].id
           Kept(m) == m.id # id
       IN /\ materials' = SelectSeq(materials, Kept)
          /\ demands' = DemandsAfterDeleteMaterial(demands, id)
  /\ results' = ResultsAfterChange(results)
  /\ UNCHANGED <<step, formMaterialId, idCounter>>
  /\ UNCHANGED runVars

\* the lengths entered in the three-step App: 7 mm fits both stocks, once
\* per pipe; 13 mm fits the longer stock only
FormLengths == {Mm(7), Mm(13)}

\* DemandStep.handleSubmit with a valid form: cnt calls of addDemand
addDemand3 ==
  /\ step = 2
  /\ formMaterialId # 0
  /\ \E project \in Projects, lengthMm \in FormLengths, cnt \in Counts :
       /\ Len(demands) + cnt <= MaxDemands
       /\ idCounter + cnt <= MaxIdCounter
       /\ demands' = demands \o
            [i \in 1..cnt |->
               [id |-> CounterAfter(idCounter, i), project |-> project,
                materialId |-> formMaterialId, lengthMm |-> lengthMm]]
       /\ idCounter' = CounterAfter(idCounter, cnt)
  /\ results' = ResultsAfterChange(results)
  /\ UNCHANGED <<materials, step, formMaterialId>>
  /\ UNCHANGED runVars

deleteDemand3 ==
  /\ step = 2
  /\ \E i \in 1..Len(demands) :
       LET Kept(d) == d.id # demands[i].id
       IN demands' = SelectSeq(demands, Kept)
  /\ results' = ResultsAfterChange(results)
  /\ UNCHANGED <<materials, step, formMaterialId, idCounter>>
  /\ UNCHANGED runVars

clearDemands3 ==
  /\ step = 2
  /\ demands # <<>>
  /\ demands' = <<>>
  /\ results' = ResultsAfterChange(results)
  /\ UNCHANGED <<materials, step, formMaterialId, idCounter>>
  /\ UNCHANGED runVars

\* the "Optimieren" buttons of step 2, shown while there are demands
runOptimize ==
  /\ step = 2
  /\ demands # <<>>
  /\ results' = <<optimize(materials, demands)>>
  /\ step' = 3
  /\ formMaterialId' = 0
  /\ UNCHANGED <<materials, demands, idCounter>>
  /\ UNCHANGED runVars

\* results ? 3 : demands.length > 0 ? 2 : materials.length > 0 ? 2 : 1
maxReachedStep ==
  IF results # <<>> THEN 3
  ELSE IF demands # <<>> THEN 2
  ELSE IF materials # <<>> THEN 2
  ELSE 1

\* a step dot (s <= maxReachedStep, then goToStep's tests) or one of the
\* buttons under a step, which call setStep; the result step and its
\* buttons are rendered only while results is not null
CanShow(s) ==
  \/ /\ s <= maxReachedStep
     /\ ~(s = 2 /\ materials = <<>>)
     /\ ~(s = 3 /\ results = <<>>)
  \/ s = 2 /\ step = 1 /\ materials # <<>>
  \/ s = 1 /\ step = 2
  \/ s \in {1, 2} /\ step = 3 /\ results # <<>>

goToStep3 ==
  /\ \E s \in {1, 2, 3} :
       /\ CanShow(s)
       /\ step' = s
       /\ formMaterialId' =
            IF s # 2 THEN 0
            ELSE IF step = 2 THEN formMaterialId
            ELSE FirstMaterialId(materials)
  /\ UNCHANGED <<materials, demands, idCounter, results>>
  /\ UNCHANGED runVars

NextApp3 ==
  \/ addMaterial3
  \/ deleteMaterial3
  \/ goToStep3
  \/ setMaterialId
  \/ addDemand3
  \/ deleteDemand3
  \/ clearDemands3
  \/ runOptimize

SpecApp3 == InitApp /\ [][NextApp3]_vars

Done == pc = "done"

\* the stepwise run returns what the function computes
StepwiseAgrees == Done => plan = optimize(materials, demands)

\* ── The result view ────────────────────────────────────────────────
\* a bug that also skips the materials with a single pipe
ViewEntriesSeveralPipes(ms, p) ==
  LET Several(e) == MaterialMapHas(ms, e.materialId) /\ Len(e.pipes) >= 2
  IN SelectSeq(ObjectEntries(p), Several)

\* the entries the loops of the view do not skip (if (!mat) continue)
ViewEntries(ms, p) ==
  LET Known(e) == MaterialMapHas(ms, e.materialId)
  IN SelectSeq(ObjectEntries(p), Known)

ViewPipes(ms, p) ==
  LET es == ViewEntries(ms, p)
  IN Concat([i \in 1..Len(es) |-> es[i].pipes])

\* pipe.cuts.reduce((sum, c) => sum + c.lengthMm, 0)
CutSum(pipe) == SumSeq([i \in 1..Len(pipe.cuts) |-> pipe.cuts[i].lengthMm])

totalPipes(ms, p) ==
  LET es == ViewEntries(ms, p)
  IN SumSeq([i \in 1..Len(es) |-> Len(es[i].pipes)])

totalStockMm(ms, p) ==
  LET ps == ViewPipes(ms, p)
  IN SumSeq([i \in 1..Len(ps) |-> ps[i].stockLengthMm])

totalUsedMm(ms, p) ==
  LET ps == ViewPipes(ms, p)
  IN SumSeq([i \in 1..Len(ps) |-> CutSum(ps[i])])

totalWasteMm(ms, p) ==
  LET ps == ViewPipes(ms, p)
  IN SumSeq([i \in 1..Len(ps) |-> ps[i].remainingMm])

\* a bug that divides the stock by the used length
efficiencyInverted(ms, p) ==
  IF totalStockMm(ms, p) > 0 /\ totalUsedMm(ms, p) > 0
  THEN [num |-> totalStockMm(ms, p) * 100, den |-> totalUsedMm(ms, p)]
  ELSE [num |-> 0, den |-> 1]

\* a bug that divides without testing the stock
efficiencyUnguarded(ms, p) ==
  [num |-> totalUsedMm(ms, p) * 100, den |-> totalStockMm(ms, p)]

\* totalStockMm > 0 ? (totalUsedMm / totalStockMm) * 100 : 0, kept as the
\* fraction num / den
efficiency(ms, p) ==
  IF totalStockMm(ms, p) > 0
  THEN [num |-> totalUsedMm(ms, p) * 100, den |-> totalStockMm(ms, p)]
  ELSE [num |-> 0, den |-> 1]

\* a bug that also reports a piece exactly as long as the usable length
IsTooLongOrEqual(ms, d) ==
  /\ MaterialMapHas(ms, d.materialId)
  /\ d.lengthMm >=
       MaterialMapGet(ms, d.materialId).stockLengthMm - Mm(FIXED_WASTE)

\* mat && d.lengthMm > mat.stockLengthMm - FIXED_WASTE
IsTooLong(ms, d) ==
  /\ MaterialMapHas(ms, d.materialId)
  /\ d.lengthMm >
       MaterialMapGet(ms, d.materialId).stockLengthMm - Mm(FIXED_WASTE)

tooLongAgg(ms, ds) ==
  LET TooLong(d) == IsTooLong(ms, d)
  IN aggregateDemands(SelectSeq(ds, TooLong))

\* the demands the view reports as too long
UnassignableIds(ms, ds) ==
  LET a == tooLongAgg(ms, ds)
  IN UNION { Range(a[i].ids) : i \in 1..Len(a) }

\* ── The cut-pattern summary ────────────────────────────────────────
\* m.toFixed(3) keeps the nearest thousandth of a metre, that is the nearest
\* whole millimetre (a length exactly between two is not in the domains)
RoundToMm(u) == (2 * u + UnitsPerMm) \div (2 * UnitsPerMm)

\* formatMm: the string `${parseFloat(m.toFixed(3))} m` is given by the
\* rounded millimetres it spells, the string `${mm} mm` by the number
formatMm(u) ==
  IF u >= Mm(1000) THEN <<"m", RoundToMm(u)>> ELSE <<"mm", u>>

\* pipe.cuts.map(c => formatMm(c.lengthMm)).join(' + '): no formatted
\* length holds a '+', so the joined string is given by the list
PatternKey(pipe) ==
  [i \in 1..Len(pipe.cuts) |-> formatMm(pipe.cuts[i].lengthMm)]

PatternIndex(pc0, key) ==
  IF \E i \in 1..Len(pc0) : pc0[i].pattern = key
  THEN CHOOSE i \in 1..Len(pc0) : pc0[i].pattern = key
  ELSE 0

\* patternCounts.set(key, (patternCounts.get(key) ?? 0) + 1)
PatternInsert(pc0, key) ==
  IF PatternIndex(pc0, key) > 0
  THEN [pc0 EXCEPT ![PatternIndex(pc0, key)].count = @ + 1]
  ELSE Append(pc0, [pattern |-> key, count |-> 1])

RECURSIVE PatternCountsUpTo(_, _)
PatternCountsUpTo(ps, n) ==
  IF n = 0 THEN <<>>
  ELSE PatternInsert(PatternCountsUpTo(ps, n - 1), PatternKey(ps[n]))

patternCounts(ps) == PatternCountsUpTo(ps, Len(ps))

\* the rows of one material; the material stands for its name
SummaryRows(e) ==
  LET counts == patternCounts(e.pipes)
  IN [i \in 1..Len(counts) |->
        [material |-> e.materialId, pattern |-> counts[i].pattern,
         count |-> counts[i].count]]

\* the loop skips a material that is not known or has no pipes
summary(ms, p) ==
  LET Shown(e) == MaterialMapHas(ms, e.materialId) /\ Len(e.pipes) # 0
      es == SelectSeq(ObjectEntries(p), Shown)
  IN Concat([i \in 1..Len(es) |-> SummaryRows(es[i])])

\* ── Reading a plan ─────────────────────────────────────────────────
CutLengths(pipe) == [i \in 1..Len(pipe.cuts) |-> pipe.cuts[i].lengthMm]

\* the rows of the summary that count a bin of material id
RowsOf(ms, p, id, pipe) ==
  { i \in 1..Len(summary(ms, p)) :
      /\ summary(ms, p)[i].material = id
      /\ summary(ms, p)[i].pattern = PatternKey(pipe) }

RowsOfMaterial(ms, p, id) ==
  SelectSeq(summary(ms, p), LAMBDA r : r.material = id)

Bins(p) == Concat([i \in 1..Len(p) |-> p[i].pipes])

AllCuts(p) == LET bs == Bins(p) IN Concat([i \in 1..Len(bs) |-> bs[i].cuts])

AssignedIds(p) == { c.id : c \in Range(AllCuts(p)) }

InputIds(ds) == { d.id : d \in Range(ds) }

KnownDemands(ms, ds) ==
  LET Known(d) == MaterialMapHas(ms, d.materialId)
  IN SelectSeq(ds, Known)

\* the material ids of the demands in the order of their first occurrence
RECURSIVE FirstSeenUpTo(_, _)
FirstSeenUpTo(ds, n) ==
  IF n = 0 THEN <<>>
  ELSE LET seen == FirstSeenUpTo(ds, n - 1)
       IN IF ds[n].materialId \in Range(seen) THEN seen
          ELSE Append(seen, ds[n].materialId)

FirstSeenKnown(ms, ds) ==
  LET Known(id) == MaterialMapHas(ms, id)
  IN SelectSeq(FirstSeenUpTo(ds, Len(ds)), Known)

EntryKeys(es) == [i \in 1..Len(es) |-> es[i].materialId]

\* ── Properties of the returned plan ────────────────────────────────
PlanBins == Bins(plan)

\* C1: every bin of the returned plan has usableMm = stockLengthMm -
\* FIXED_WASTE, and its stock length is the fixed waste plus its cuts plus
\* one kerf between consecutive cuts plus its remainder.
C1_Conservation ==
  Done => \A i \in 1..Len(PlanBins) :
            LET b == PlanBins[i]
            IN /\ b.usableMm = b.stockLengthMm - Mm(FIXED_WASTE)
               /\ b.stockLengthMm =
                    Mm(FIXED_WASTE) + CutSum(b) + Mm(KERF) * (Len(b.cuts) - 1)
                      + b.remainingMm

C1_Witness ==
  Done /\ \E i \in 1..Len(PlanBins) : Len(PlanBins[i].cuts) >= 2

\* C2: in the returned plan no demand id occurs twice, in one bin or in
\* two, and every cut listed under a material id carries that material id.
C2_NoOverAssignment ==
  Done =>
    /\ \A i, j \in 1..Len(AllCuts(plan)) :
         i # j => AllCuts(plan)[i].id # AllCuts(plan)[j].id
    /\ \A e \in 1..Len(plan) : \A b \in 1..Len(plan[e].pipes) :
         \A c \in 1..Len(plan[e].pipes[b].cuts) :
           plan[e].pipes[b].cuts[c].materialId = plan[e].materialId

C2_Witness ==
  /\ Done
  /\ Len(plan) = 2
  /\ \A e \in 1..Len(plan) : Len(plan[e].pipes) >= 1
  /\ \E e \in 1..Len(plan) : Len(plan[e].pipes) >= 2

\* C3: a demand of a known material is either cut from some bin of the plan
\* or reported too long by the view, never both and never neither; a demand
\* of an unknown material is neither.
C3_UnassignableComplete ==
  Done => \A i \in 1..Len(demands) :
            LET assigned == demands[i].id \in AssignedIds(plan)
                tooLong == demands[i].id \in UnassignableIds(materials, demands)
            IN IF MaterialMapHas(materials, demands[i].materialId)
               THEN assigned # tooLong
               ELSE ~assigned /\ ~tooLong

C3_Witness ==
  /\ Done
  /\ AssignedIds(plan) # {}
  /\ UnassignableIds(materials, demands) # {}
  /\ \E i \in 1..Len(demands) :
       ~MaterialMapHas(materials, demands[i].materialId)

\* C4 as stated: every open bin has remainingMm >= 0 at every point of the
\* packing.
C4_NeverNegative == \A i \in 1..Len(pipes) : pipes[i].remainingMm >= 0

\* C4, amended: at every point of the packing a bin holding one cut was
\* opened for a cut no longer than usableMm and has remainingMm >= -KERF,
\* and a bin that a piece was appended to has remainingMm >= 0, that is, it
\* had room for the piece and its kerf.
C4_PackingBounds ==
  \A i \in 1..Len(pipes) :
    /\ pipes[i].remainingMm >= -Mm(KERF)
    /\ pipes[i].cuts[1].lengthMm <= pipes[i].usableMm
    /\ Len(pipes[i].cuts) >= 2 => pipes[i].remainingMm >= 0
    /\ Len(pipes[i].cuts) = 1 =>
         pipes[i].remainingMm = pipes[i].usableMm - Needed(pipes[i].cuts[1])

C4_Witness ==
  /\ pc = "pieces"
  /\ \E i \in 1..Len(pipes) : pipes[i].remainingMm < 0
  /\ \E i \in 1..Len(pipes) : Len(pipes[i].cuts) >= 2

\* C5: in the returned plan the cuts of a bin and the kerfs between them
\* fit the bin's usable length, and its remainder is not negative.
C5_FitsUsable ==
  Done => \A i \in 1..Len(PlanBins) :
            /\ CutSum(PlanBins[i]) + Mm(KERF) * (Len(PlanBins[i].cuts) - 1)
                 <= PlanBins[i].usableMm
            /\ PlanBins[i].remainingMm >= 0

C5_Witness ==
  /\ Done
  /\ \E i \in 1..Len(PlanBins) : PlanBins[i].remainingMm = 0
  /\ \E i \in 1..Len(PlanBins) : Len(PlanBins[i].cuts) >= 2

\* C6 as stated: Object.entries of the returned plan lists the materials in
\* the order of their first demand.
C6_FirstDemandOrder ==
  Done => EntryKeys(ObjectEntries(plan)) = FirstSeenKnown(materials, demands)

\* C7 as stated: the demands the view reports too long are exactly the
\* input demands that are in no bin of the plan.
C7_ExactlyTheDropped ==
  Done => UnassignableIds(materials, demands)
            = InputIds(demands) \ AssignedIds(plan)

\* C7, amended: the demands the view reports too long are exactly the input
\* demands of known materials that are in no bin of the plan.
C7_ExactlyTheDroppedKnown ==
  Done => UnassignableIds(materials, demands)
            = InputIds(KnownDemands(materials, demands)) \ AssignedIds(plan)

C7_Witness ==
  /\ Done
  /\ Cardinality(UnassignableIds(materials, demands)) >= 2
  /\ Len(KnownDemands(materials, demands)) < Len(demands)

\* C8: demands of unknown materials leave no entry in the plan, and the
\* plan is the one optimize returns without them.
C8_UnknownIgnored ==
  Done =>
    /\ \A e \in 1..Len(plan) : MaterialMapHas(materials, plan[e].materialId)
    /\ plan = optimize(materials, KnownDemands(materials, demands))

C8_Witness ==
  /\ Done
  /\ Len(demands) >= 2
  /\ ~MaterialMapHas(materials, demands[1].materialId)
  /\ PlanBins # <<>>

\* C10: the used length lies between 0 and the stock length, so the
\* efficiency lies between 0 and 100, and it is 0 when no stock is used.
C10_EfficiencyBounds ==
  Done =>
    LET eff == efficiency(materials, plan)
    IN /\ 0 <= totalUsedMm(materials, plan)
       /\ totalUsedMm(materials, plan) <= totalStockMm(materials, plan)
       /\ eff.den > 0
       /\ 0 <= eff.num
       /\ eff.num <= 100 * eff.den
       /\ totalStockMm(materials, plan) = 0 => eff.num = 0

C10_Witness ==
  /\ Done
  /\ totalPipes(materials, plan) >= 2
  /\ totalUsedMm(materials, plan) > 0

\* ── Properties of the views ────────────────────────────────────────
\* C11 as stated: in the cut-pattern summary every bin is counted under
\* exactly one row of its material, two bins of a material are counted
\* under the same row exactly if their cut lengths are equal one by one, and
\* the counts of a material's rows add up to its number of bins.
C11_PatternRows ==
  Done => \A e \in 1..Len(plan) :
            LET id == plan[e].materialId
                ps == plan[e].pipes
                rows == RowsOfMaterial(materials, plan, id)
            IN /\ \A i \in 1..Len(ps) :
                    Cardinality(RowsOf(materials, plan, id, ps[i])) = 1
               /\ \A i, j \in 1..Len(ps) :
                    (RowsOf(materials, plan, id, ps[i])
                       = RowsOf(materials, plan, id, ps[j]))
                      <=> (CutLengths(ps[i]) = CutLengths(ps[j]))
               /\ SumSeq([r \in 1..Len(rows) |-> rows[r].count]) = Len(ps)

\* C11 for whole millimetres only (not the claim): the same statement over
\* the plans all of whose cuts are a whole number of millimetres
WholeMm(p) ==
  \A c \in Range(AllCuts(p)) : c.lengthMm = Mm(c.lengthMm \div UnitsPerMm)

C11_PatternRowsWholeMm == WholeMm(plan) => C11_PatternRows

\* the fields aggregateDemands groups by
GroupFields(x) == <<x.materialId, x.project, x.lengthMm>>

\* the distinct field triples of the demands in the order they first occur
RECURSIVE FirstFieldsUpTo(_, _)
FirstFieldsUpTo(ds, n) ==
  IF n = 0 THEN <<>>
  ELSE LET seen == FirstFieldsUpTo(ds, n - 1)
       IN IF GroupFields(ds[n]) \in Range(seen) THEN seen
          ELSE Append(seen, GroupFields(ds[n]))

\* the ids of the demands with the fields of x, in input order
IdsWithFields(ds, x) ==
  LET Same(d) == GroupFields(d) = GroupFields(x)
      sel == SelectSeq(ds, Same)
  IN [i \in 1..Len(sel) |-> sel[i].id]

Aggregated == pc = "aggregated"

\* C12: the groups of aggregateDemands are the distinct (materialId,
\* project, lengthMm) triples in the order they first occur; each group lists
\* the ids of exactly the demands with its triple, in input order, and
\* counts them; so every demand id is in one group and in no other.
C12_Aggregation ==
  Aggregated =>
    /\ [g \in 1..Len(aggregated) |-> GroupFields(aggregated[g])]
         = FirstFieldsUpTo(demands, Len(demands))
    /\ \A g \in 1..Len(aggregated) :
         /\ aggregated[g].ids = IdsWithFields(demands, aggregated[g])
         /\ aggregated[g].count = Len(aggregated[g].ids)
    /\ \A i, j \in 1..Len(demands) :
         (\E g \in 1..Len(aggregated) :
            {demands[i].id, demands[j].id} \subseteq Range(aggregated[g].ids))
           <=> GroupFields(demands[i]) = GroupFields(demands[j])
    /\ \A g, h \in 1..Len(aggregated) :
         g # h => Range(aggregated[g].ids) \cap Range(aggregated[h].ids) = {}

C12_Witness ==
  /\ Aggregated
  /\ Len(aggregated) >= 2
  /\ \E g \in 1..Len(aggregated) : aggregated[g].count >= 2
  /\ \E i, j \in 1..Len(demands) :
       /\ demands[i].project # demands[j].project
       /\ demands[i].materialId = demands[j].materialId
       /\ demands[i].lengthMm = demands[j].lengthMm

\* ── Properties of the statistics ───────────────────────────────────
\* C13: over the returned plan and the same materials the view counts every
\* bin of the plan: totalPipes is the number of bins, totalStockMm the sum of
\* their stock lengths, totalUsedMm the sum of all their cut lengths and
\* totalWasteMm the sum of their final remainders.
C13_Totals ==
  Done =>
    /\ totalPipes(materials, plan) = Len(PlanBins)
    /\ totalStockMm(materials, plan)
         = SumSeq([i \in 1..Len(PlanBins) |-> PlanBins[i].stockLengthMm])
    /\ totalUsedMm(materials, plan)
         = SumSeq([i \in 1..Len(AllCuts(plan)) |-> AllCuts(plan)[i].lengthMm])
    /\ totalWasteMm(materials, plan)
         = SumSeq([i \in 1..Len(PlanBins) |-> PlanBins[i].remainingMm])

C13_Witness ==
  /\ Done
  /\ Len(plan) = 2
  /\ \E e \in 1..Len(plan) : Len(plan[e].pipes) = 1
  /\ \E i \in 1..Len(PlanBins) : Len(PlanBins[i].cuts) >= 2
  /\ totalWasteMm(materials, plan) > 0

\* the material ids some demand refers to
DemandedIds(ds) == { d.materialId : d \in Range(ds) }

\* C14: with no materials or no demands the returned plan has no entry and
\* the statistics over it are all 0, the efficiency included; and a material
\* no demand refers to has no entry in the returned plan.
C14_EmptyInputs ==
  Done =>
    /\ (materials = <<>> \/ demands = <<>>) =>
         /\ plan = <<>>
         /\ totalPipes(materials, plan) = 0
         /\ totalStockMm(materials, plan) = 0
         /\ totalUsedMm(materials, plan) = 0
         /\ totalWasteMm(materials, plan) = 0
         /\ efficiency(materials, plan).num = 0
         /\ efficiency(materials, plan).den > 0
    /\ \A m \in 1..Len(materials) :
         materials[m].id \notin DemandedIds(demands) =>
           \A e \in 1..Len(plan) : plan[e].materialId # materials[m].id

C14_Witness == Done /\ demands = <<>> /\ Len(materials) = 2

\* a material without demands next to one whose demands are packed
C14_OtherMaterialPacked ==
  /\ Done
  /\ Len(materials) = 2
  /\ Len(plan) = 1
  /\ \E m \in 1..Len(materials) : materials[m].id \notin DemandedIds(demands)

PipesWithRoom(ps, needed) == { i \in 1..Len(ps) : ps[i].remainingMm >= needed }

\* the step of the loop body for a piece that is not too long
PlacingStep ==
  /\ AtPiece
  /\ si' = si + 1
  /\ sorted[si].lengthMm <= mat[1].stockLengthMm - Mm(FIXED_WASTE)

\* C16: a piece that is placed, with needed = lengthMm + KERF, joins the
\* open pipe with the smallest remainingMm among those with remainingMm >=
\* needed, the earliest of them if several have that value, and no other
\* pipe changes; a new pipe is opened, after the others, only when no open
\* pipe has remainingMm >= needed.
C16_BestFit ==
  [][PlacingStep =>
       LET piece == sorted[si]
           needed == piece.lengthMm + Mm(KERF)
           room == PipesWithRoom(pipes, needed)
       IN IF room = {}
          THEN /\ Len(pipes') = Len(pipes) + 1
               /\ SubSeq(pipes', 1, Len(pipes)) = pipes
               /\ pipes'[Len(pipes')].cuts = <<piece>>
               /\ pipes'[Len(pipes')].remainingMm
                    = mat[1].stockLengthMm - Mm(FIXED_WASTE) - needed
          ELSE \E i \in room :
                 /\ \A j \in room : pipes[i].remainingMm <= pipes[j].remainingMm
                 /\ \A j \in room :
                      pipes[j].remainingMm = pipes[i].remainingMm => i <= j
                 /\ Len(pipes') = Len(pipes)
                 /\ \A j \in 1..Len(pipes) : j # i => pipes'[j] = pipes[j]
                 /\ pipes'[i].cuts = Append(pipes[i].cuts, piece)
                 /\ pipes'[i].remainingMm = pipes[i].remainingMm - needed
  ]_vars

\* the piece just placed joined a later pipe although an earlier one had
\* more room than that pipe
C16_Witness ==
  /\ pc = "pieces"
  /\ si > 1
  /\ \E i, j \in 1..Len(pipes) :
       /\ i < j
       /\ Len(pipes[j].cuts) >= 2
       /\ pipes[j].cuts[Len(pipes[j].cuts)] = sorted[si - 1]
       /\ pipes[i].remainingMm > pipes[j].remainingMm + Needed(sorted[si - 1])

\* the piece just placed had the choice of two pipes with equal room
C16_TieReached ==
  /\ pc = "pieces"
  /\ si > 1
  /\ \E i, j \in 1..Len(pipes) :
       /\ i < j
       /\ Len(pipes[i].cuts) >= 2
       /\ pipes[i].cuts[Len(pipes[i].cuts)] = sorted[si - 1]
       /\ pipes[j].remainingMm = pipes[i].remainingMm + Needed(sorted[si - 1])

\* the position of the demand with this id in the input
Pos(ds, id) == CHOOSE i \in 1..Len(ds) : ds[i].id = id

\* a is placed before b: it is longer, or as long and earlier in the input
PlacedBefore(ds, a, b) ==
  \/ a.lengthMm > b.lengthMm
  \/ a.lengthMm = b.lengthMm /\ Pos(ds, a.id) < Pos(ds, b.id)

\* C17: the pieces of a material are placed longest first, pieces of equal
\* length in input order, all demands of the material among them; so in the
\* returned plan the cuts of a bin are in that order, and so are the first
\* cuts of the bins of a material, which lists the bins as they were opened.
C17_PlacementOrder ==
  /\ pc = "pieces" =>
       /\ \A i, j \in 1..Len(sorted) :
            i < j => PlacedBefore(demands, sorted[i], sorted[j])
       /\ { sorted[i] : i \in 1..Len(sorted) }
            = { d \in Range(demands) : d.materialId = mat[1].id }
       /\ Len(sorted) = Cardinality({ sorted[i] : i \in 1..Len(sorted) })
  /\ Done =>
       \A e \in 1..Len(plan) :
         /\ \A b \in 1..Len(plan[e].pipes) :
              \A i, j \in 1..Len(plan[e].pipes[b].cuts) :
                i < j => PlacedBefore(demands, plan[e].pipes[b].cuts[i],
                                      plan[e].pipes[b].cuts[j])
         /\ \A b, c \in 1..Len(plan[e].pipes) :
              b < c => PlacedBefore(demands, plan[e].pipes[b].cuts[1],
                                    plan[e].pipes[c].cuts[1])

\* a plan of two bins, one of them with two cuts of equal length, from
\* demands that were not entered longest first
C17_Witness ==
  /\ Done
  /\ \E e \in 1..Len(plan) :
       /\ Len(plan[e].pipes) >= 2
       /\ \E b \in 1..Len(plan[e].pipes) :
            /\ Len(plan[e].pipes[b].cuts) >= 2
            /\ plan[e].pipes[b].cuts[1].lengthMm
                 = plan[e].pipes[b].cuts[2].lengthMm
  /\ demands[1].lengthMm < demands[Len(demands)].lengthMm

\* ── Properties of the App state ────────────────────────────────────
MaterialIds(ms) == { ms[i].id : i \in 1..Len(ms) }

\* C18: after every step of the forms every demand refers to a material of
\* the materials state (there is no demand at the start); and a step that
\* deletes the material id takes exactly that material out of materials and
\* exactly the demands with materialId = id out of demands, in place.
C18_DemandsReferToMaterials ==
  [][/\ \A i \in 1..Len(demands') :
          demands'[i].materialId \in MaterialIds(materials')
     /\ Len(materials') < Len(materials) =>
          \E id \in MaterialIds(materials) :
            /\ materials' = SelectSeq(materials, LAMBDA m : m.id # id)
            /\ demands' = SelectSeq(demands, LAMBDA d : d.materialId # id)
    ]_vars

\* a material with demands has been deleted while another material and its
\* demands stay
C18_Witness ==
  /\ step = 1
  /\ Len(materials) = 1
  /\ materials[1].id > 1
  /\ demands # <<>>
  /\ idCounter > Len(materials) + Len(demands) + 1

\* ── Properties of the bins of one material ─────────────────────────
\* C19: in the returned plan, for two bins i < j of a material, bin i had
\* no room for the first cut of bin j: its final remainingMm is less than
\* that cut's length plus 2 * KERF.
C19_LaterBinNeeded ==
  Done =>
    \A e \in 1..Len(plan) : \A i, j \in 1..Len(plan[e].pipes) :
      i < j =>
        plan[e].pipes[i].remainingMm
          < plan[e].pipes[j].cuts[1].lengthMm + 2 * Mm(KERF)

\* a bin whose final remainder would take the first cut of a later bin with
\* one kerf, though not with two
C19_Witness ==
  /\ Done
  /\ \E e \in 1..Len(plan) : \E i, j \in 1..Len(plan[e].pipes) :
       /\ i < j
       /\ plan[e].pipes[i].remainingMm
            >= plan[e].pipes[j].cuts[1].lengthMm + Mm(KERF)

\* the demand is of a known material and at most KERF shorter than usable
NearlyUsable(ms, d) ==
  /\ MaterialMapHas(ms, d.materialId)
  /\ d.lengthMm <= MaterialMapGet(ms, d.materialId).stockLengthMm
                     - Mm(FIXED_WASTE)
  /\ d.lengthMm > MaterialMapGet(ms, d.materialId).stockLengthMm
                    - Mm(FIXED_WASTE) - Mm(KERF)

\* C20: a piece longer than usable - KERF and not longer than usable is in
\* the returned plan, in one bin of its material, as the only cut of that
\* bin, and the bin's final remainingMm is usable - lengthMm.
C20_NearlyUsableAlone ==
  Done =>
    \A k \in 1..Len(demands) :
      NearlyUsable(materials, demands[k]) =>
        LET d == demands[k]
            m == MaterialMapGet(materials, d.materialId)
            holds == { i \in 1..Len(PlanBins) :
                         \E c \in 1..Len(PlanBins[i].cuts) :
                           PlanBins[i].cuts[c].id = d.id }
        IN /\ Cardinality(holds) = 1
           /\ \A i \in holds :
                /\ PlanBins[i].cuts = <<d>>
                /\ PlanBins[i].stockLengthMm = m.stockLengthMm
                /\ PlanBins[i].remainingMm
                     = m.stockLengthMm - Mm(FIXED_WASTE) - d.lengthMm

\* a piece of exactly the usable length, a piece nearly as long and a
\* short piece of one material
C20_Witness ==
  /\ Done
  /\ Len(PlanBins) = 3
  /\ \E k \in 1..Len(demands) :
       /\ NearlyUsable(materials, demands[k])
       /\ demands[k].lengthMm = MaterialMapGet(materials,
             demands[k].materialId).stockLengthMm - Mm(FIXED_WASTE)
  /\ \E k \in 1..Len(demands) :
       /\ NearlyUsable(materials, demands[k])
       /\ demands[k].lengthMm < MaterialMapGet(materials,
             demands[k].materialId).stockLengthMm - Mm(FIXED_WASTE)
  /\ \A k, l \in 1..Len(demands) : demands[k].materialId = demands[l].materialId

\* ── Properties of the three-step App ───────────────────────────────
\* C21: in the three-step App, whatever the forms, the buttons and
\* runOptimize did, a results that is not null is the plan optimize returns
\* for the materials and demands of that moment, and the result step is
\* shown only with a results that is not null.
C21_ResultsCurrent ==
  /\ results # <<>> => results[1] = optimize(materials, demands)
  /\ step = 3 => results # <<>>

\* a plan is kept although a material was added after the last demand
C21_Witness ==
  /\ results # <<>>
  /\ Bins(results[1]) # <<>>
  /\ step = 1
  /\ \E m \in 1..Len(materials) :
       \A k \in 1..Len(demands) : materials[m].id > demands[k].id

\* ── Properties of the ids ──────────────────────────────────────────
\* the ids of the materials and demands that exist
LiveIds(ms, ds) == MaterialIds(ms) \cup InputIds(ds)

\* C22: the id counter never goes back, and the ids a step creates are
\* exactly the values the counter passes in that step, each used once; so
\* every id is larger than all ids minted before it, deleted ones
\* included, the ids of the materials and the demands are pairwise distinct
\* within and across the two kinds, and each list holds them in minting
\* order.
C22_FreshIds ==
  [][LET before == LiveIds(materials, demands)
         after == LiveIds(materials', demands')
     IN /\ idCounter' >= idCounter
        /\ after \ before = (idCounter + 1)..idCounter'
        /\ \A id \in after : id <= idCounter'
        /\ Cardinality(after) = Len(materials') + Len(demands')
        /\ \A i, j \in 1..Len(materials') :
             i < j => materials'[i].id < materials'[j].id
        /\ \A i, j \in 1..Len(demands') :
             i < j => demands'[i].id < demands'[j].id
    ]_vars

\* ids have been deleted and later ones minted, a material after a demand
C22_Witness ==
  /\ \E m \in 1..Len(materials) : \E k \in 1..Len(demands) :
       materials[m].id > demands[k].id
  /\ \E id \in 1..idCounter :
       /\ id \notin LiveIds(materials, demands)
       /\ \E later \in LiveIds(materials, demands) : later > id

====
